---- MODULE Spec2Model ----
(***************************************************************************)
(* Model of src/main.py: the M7X downloader API.                           *)
(*                                                                         *)
(*   get_format_opts   pure mapping (format, quality) -> engine options    *)
(*   POST /info        get_video_info                                      *)
(*   POST /download    download_video and its lazy generator generate()    *)
(*   POST /batch-info  get_batch_info                                      *)
(*                                                                         *)
(* The extraction engine (yt_dlp) is an external collaborator: each call   *)
(* either raises or returns, and the model draws its outcome from a small  *)
(* set.  Strings that the code inspects character by character (titles,    *)
(* descriptions) are sequences of characters; strings it only compares or  *)
(* passes on (formats, urls, messages) are atomic.  The content of a file  *)
(* is identified by the engine call that wrote it ("data") and its size;   *)
(* a chunk read from it is the byte range [off, off+len) of that data.     *)
(***************************************************************************)
EXTENDS Integers, Sequences, FiniteSets, TLC

\* ------------------------------------------------------------------ bounds

\* number of /download requests in one behaviour
MaxRequests == 2
\* the engine's largest artifacts are MaxBlocks whole read blocks (and a byte)
MaxBlocks == 1
\* longest title drawn for the filename scenario
MaxTitleLen == 3
\* longest url list drawn for /batch-info
MaxUrls == 3
\* short descriptions 0..MaxShortDesc, besides the ones around the limit
MaxShortDesc == 3

\* ---------------------------------------------------------------- constants

\* Python's None, and a str value where None is possible too
None == [type |-> "NoneType"]

Str(s) == [type |-> "str", val |-> s]

\* f.read(1024 * 1024)
ChunkSize == 1024 * 1024

\* info.get('description', '')[:500]
DescLimit == 500

audio_formats == {"mp3", "aac", "flac", "wav", "ogg"}

\* the keys of quality_map
QualityKeys == {"360", "480", "720", "1080", "1440", "2160"}

quality_map == [q \in QualityKeys |->
    <<"bestvideo[height<=", q, "]+bestaudio/best[height<=", q, "]">>]

content_types ==
    [mp4 |-> "video/mp4", webm |-> "video/webm", mkv |-> "video/x-matroska",
     avi |-> "video/x-msvideo", mp3 |-> "audio/mpeg", aac |-> "audio/aac",
     flac |-> "audio/flac", wav |-> "audio/wav", ogg |-> "audio/ogg"]

\* ------------------------------------------------------------ python helpers

\* dict.get(key, default)
Get(d, key, default) == IF key \in DOMAIN d THEN d[key] ELSE default

\* truthiness of an Optional[str]: None and the empty string are false
Truthy(s) == s # None /\ s # Str("")

\* seq[:n]
Slice(s, n) == SubSeq(s, 1, IF Len(s) < n THEN Len(s) ELSE n)

\* ----------------------------------------------------------- get_format_opts

\* the mapping with the fallback of quality_map.get on the wrong key
get_format_opts_default360(format, quality) ==
    IF format \in audio_formats
    THEN [format |-> "bestaudio/best",
          postprocessors |-> <<[key |-> "FFmpegExtractAudio",
                                preferredcodec |-> format,
                                preferredquality |-> "320"]>>]
    ELSE LET format_string == Get(quality_map, quality, quality_map["360"])
         IN  IF format # "mp4"
             THEN [format |-> format_string,
                   postprocessors |-> <<[key |-> "FFmpegVideoConvertor",
                                         preferedformat |-> format]>>]
             ELSE [format |-> format_string]

\* def get_format_opts(format, quality) -> dict
get_format_opts(format, quality) ==
    IF format \in audio_formats
    THEN [format |-> "bestaudio/best",
          postprocessors |-> <<[key |-> "FFmpegExtractAudio",
                                preferredcodec |-> format,
                                preferredquality |-> "320"]>>]
    ELSE LET format_string == Get(quality_map, quality, quality_map["720"])
         IN  IF format # "mp4"
             THEN [format |-> format_string,
                   postprocessors |-> <<[key |-> "FFmpegVideoConvertor",
                                         preferedformat |-> format]>>]
             ELSE [format |-> format_string]

\* ------------------------------------------------------------------- state

Requests == 1..MaxRequests

VARIABLES
    \* POST /download, per request
    pc,          \* where the request is: idle, http500, responded, created,
                 \* streaming, done, failed, closed
    response,    \* what download_video answered: status and headers, or None
    closure,     \* what generate() closes over: request and ydl_opts
    tmp_path,    \* generate()'s tmp_path, None until the file is created
    pos,         \* read offset of the open file f
    chunks,      \* the chunks generate() has yielded, in order
    log,         \* engine calls and file operations of the request, in order
    raised,      \* the message of the exception that ended the request, or None
    written,     \* the artifact the request's engine call wrote, or None
    fs,          \* the temporary directory: the set of files in it
    \* get_format_opts called on its own
    fmt_call,
    \* POST /info
    info_call,
    \* POST /batch-info
    batch_call

vars == <<pc, response, closure, tmp_path, pos, chunks, log, raised, written, fs,
          fmt_call, info_call, batch_call>>

Init ==
    /\ pc = [r \in Requests |-> "idle"]
    /\ response = [r \in Requests |-> None]
    /\ closure = [r \in Requests |-> None]
    /\ tmp_path = [r \in Requests |-> None]
    /\ pos = [r \in Requests |-> 0]
    /\ chunks = [r \in Requests |-> <<>>]
    /\ log = [r \in Requests |-> <<>>]
    /\ raised = [r \in Requests |-> None]
    /\ written = [r \in Requests |-> None]
    /\ fs = {}
    /\ fmt_call = None
    /\ info_call = None
    /\ batch_call = None

\* ------------------------------------------------------------ engine outcomes

\* a call into yt_dlp raises ...
Raises(msg) == [ok |-> FALSE, error |-> msg]

\* ... or returns
Returns(v) == [ok |-> TRUE, value |-> v]

EngineErrors == {"ERROR: Unsupported URL", "ERROR: Video unavailable"}

\* ------------------------------------------------------------- POST /download

\* the letters and digits that occur in the model
AlNum == {"a", "7", "v", "i", "d", "e", "o"}

\* characters of the titles the engine returns
Chars == {"a", "7", " ", "-", "_", "!"}

\* str.isalnum() of one character
isalnum(c) == c \in AlNum

\* str.rstrip(): trailing whitespace removed (of the characters the filter
\* keeps, only the space is whitespace)
RECURSIVE rstrip(_)
rstrip(s) ==
    IF s # <<>> /\ s[Len(s)] \in {" ", "\t", "\n"}
    THEN rstrip(SubSeq(s, 1, Len(s) - 1))
    ELSE s

Keep(c) == isalnum(c) \/ c \in {" ", "-", "_"}

\* "".join(c for c in title if c.isalnum() or c in (' ', '-', '_')).rstrip()
SafeTitle(title) == rstrip(SelectSeq(title, Keep))

\* f"{safe_title}.{request.format}"
Filename(safe_title, format) == safe_title \o <<".", format>>

\* request.quality or "720"
QualityOr720(quality) == IF Truthy(quality) THEN quality.val ELSE "720"

\* the -ss / -to arguments of the trim
PostprocessorArgs(request) ==
    (IF Truthy(request.start_time) THEN <<"-ss", request.start_time.val>> ELSE <<>>)
    \o (IF Truthy(request.end_time) THEN <<"-to", request.end_time.val>> ELSE <<>>)

\* ydl_opts as download_video builds it before the generator runs
YdlOpts(request) ==
    LET base == [quiet |-> TRUE, no_warnings |-> TRUE, outtmpl |-> "-"]
                @@ get_format_opts(request.format, QualityOr720(request.quality))
    IN  IF Truthy(request.start_time) \/ Truthy(request.end_time)
        THEN [postprocessor_args |-> [ffmpeg |-> PostprocessorArgs(request)]] @@ base
        ELSE base

\* HTTPException(status_code=..., detail=str(e))
HTTPException(status_code, detail) == [status |-> status_code, detail |-> detail]

\* StreamingResponse(generate(), media_type=..., headers=...): status 200, and the
\* generator passed to it has not run a line yet
StreamingResponse(media_type, filename) ==
    [status |-> 200, media_type |-> media_type, filename |-> filename]

\* the handler, up to its return or raise.  `extracted` is what
\* ydl.extract_info(request.url, download=False) does for this request.
download_video(r, request, extracted) ==
    /\ pc[r] = "idle"
    /\ log' = [log EXCEPT ![r] = Append(@, "extract_info")]
    /\ IF ~extracted.ok
       THEN \* extract_info raised: except Exception -> HTTPException(500)
            /\ raised' = [raised EXCEPT ![r] = Str(extracted.error)]
            /\ response' = [response EXCEPT ![r] = HTTPException(500, extracted.error)]
            /\ pc' = [pc EXCEPT ![r] = "http500"]
            /\ UNCHANGED closure
       ELSE LET info == extracted.value
                title == Get(info, "title", Str(<<"v", "i", "d", "e", "o">>))
            IN  IF title = None
                THEN \* iterating None raises TypeError, caught the same way
                     /\ raised' = [raised EXCEPT ![r] = Str("'NoneType' object is not iterable")]
                     /\ response' = [response EXCEPT ![r] =
                            HTTPException(500, "'NoneType' object is not iterable")]
                     /\ pc' = [pc EXCEPT ![r] = "http500"]
                     /\ UNCHANGED closure
                ELSE /\ response' = [response EXCEPT ![r] =
                            StreamingResponse(
                                Get(content_types, request.format, "application/octet-stream"),
                                Filename(SafeTitle(title.val), request.format))]
                     /\ closure' = [closure EXCEPT ![r] =
                            [request |-> request, ydl_opts |-> YdlOpts(request),
                             title |-> title.val, safe_title |-> SafeTitle(title.val)]]
                     /\ pc' = [pc EXCEPT ![r] = "responded"]
                     /\ UNCHANGED raised
    /\ UNCHANGED <<tmp_path, pos, chunks, written, fs, fmt_call, info_call, batch_call>>

\* ------------------------------------------------------------------ generate()

\* names tempfile can draw; the real name space (8 random characters) never
\* runs out: a request creates one file, so one name per request is enough
\* for a fresh one to be there whenever one is asked for
Names == 1..MaxRequests

Exists(files, path) == \E f \in files : f.path = path

FileAt(files, path) == CHOOSE f \in files : f.path = path

\* a name drawn without looking at what exists
AnyPaths(files, suffix) ==
    {[name |-> n, suffix |-> suffix] : n \in Names}

\* tempfile.NamedTemporaryFile(delete=False, suffix=...) opens its file with
\* O_CREAT | O_EXCL: the name it returns is one no file had
FreshPaths(files, suffix) ==
    {p \in {[name |-> n, suffix |-> suffix] : n \in Names} : ~Exists(files, p)}

\* sizes of the artifact the engine writes: nothing, one byte, MaxBlocks whole
\* read blocks, and one byte more than that
Sizes == {0, 1, MaxBlocks * ChunkSize, MaxBlocks * ChunkSize + 1}

Min(a, b) == IF a < b THEN a ELSE b

\* a read that starts over at the beginning of the file every time
FileRead_FromStart(f, offset, n) ==
    [data |-> f.data, off |-> 0, len |-> Min(n, f.size - offset)]

\* f.read(n) at `offset`: the bytes [offset, offset + n) of the file, fewer at
\* its end, none after it
FileRead(f, offset, n) ==
    [data |-> f.data, off |-> offset, len |-> Min(n, f.size - offset)]

\* first next(): up to `tmp_path = tmp.name; ydl_opts['outtmpl'] = tmp_path`
generate_create(r) ==
    /\ pc[r] = "responded"
    /\ \E p \in FreshPaths(fs, closure[r].request.format) :
          /\ fs' = fs \cup {[path |-> p, creator |-> r, data |-> 0, size |-> 0]}
          /\ tmp_path' = [tmp_path EXCEPT ![r] = p]
          /\ closure' = [closure EXCEPT ![r].ydl_opts.outtmpl = p]
    /\ log' = [log EXCEPT ![r] = Append(@, "create")]
    /\ pc' = [pc EXCEPT ![r] = "created"]
    /\ UNCHANGED <<response, pos, chunks, raised, written,
                   fmt_call, info_call, batch_call>>

\* a pipelined download: the first block goes to the caller while the engine
\* is still working, whatever the engine does afterwards
generate_download_pipelined(r, downloaded) ==
    /\ pc[r] = "created"
    /\ chunks' = [chunks EXCEPT ![r] = Append(@, [data |-> r, off |-> 0, len |-> 1])]
    /\ IF downloaded.ok
       THEN LET out == closure[r].ydl_opts.outtmpl
                old == FileAt(fs, out)
            IN  /\ fs' = (fs \ {old}) \cup
                         {[old EXCEPT !.data = r, !.size = downloaded.value]}
                /\ written' = [written EXCEPT ![r] =
                                  [path |-> out, data |-> r, size |-> downloaded.value]]
                /\ log' = [log EXCEPT ![r] = Append(@, "download")]
                /\ pc' = [pc EXCEPT ![r] = "streaming"]
                /\ UNCHANGED raised
       ELSE /\ raised' = [raised EXCEPT ![r] = Str(downloaded.error)]
            /\ log' = [log EXCEPT ![r] = Append(@, "download raised")]
            /\ pc' = [pc EXCEPT ![r] = "failed"]
            /\ UNCHANGED <<fs, written>>
    /\ UNCHANGED <<response, closure, tmp_path, pos,
                   fmt_call, info_call, batch_call>>

\* ydl.download([request.url]); `downloaded` is what the engine does: it
\* raises, or it writes an artifact of some size to outtmpl and returns
generate_download(r, downloaded) ==
    /\ pc[r] = "created"
    /\ IF downloaded.ok
       THEN LET out == closure[r].ydl_opts.outtmpl
                old == FileAt(fs, out)
            IN  /\ fs' = (fs \ {old}) \cup
                         {[old EXCEPT !.data = r, !.size = downloaded.value]}
                /\ written' = [written EXCEPT ![r] =
                                  [path |-> out, data |-> r, size |-> downloaded.value]]
                /\ log' = [log EXCEPT ![r] = Append(@, "download")]
                /\ pc' = [pc EXCEPT ![r] = "streaming"]
                /\ UNCHANGED raised
       ELSE \* except Exception as e: raise e
            /\ raised' = [raised EXCEPT ![r] = Str(downloaded.error)]
            /\ log' = [log EXCEPT ![r] = Append(@, "download raised")]
            /\ pc' = [pc EXCEPT ![r] = "failed"]
            /\ UNCHANGED <<fs, written>>
    /\ UNCHANGED <<response, closure, tmp_path, pos, chunks,
                   fmt_call, info_call, batch_call>>

\* while chunk := f.read(1024 * 1024): yield chunk
generate_yield(r) ==
    /\ pc[r] = "streaming"
    /\ LET chunk == FileRead(FileAt(fs, tmp_path[r]), pos[r], ChunkSize)
       IN  /\ chunk.len > 0
           /\ chunks' = [chunks EXCEPT ![r] = Append(@, chunk)]
           /\ pos' = [pos EXCEPT ![r] = @ + chunk.len]
    /\ log' = [log EXCEPT ![r] = Append(@, "yield")]
    /\ UNCHANGED <<pc, response, closure, tmp_path, raised, written, fs,
                   fmt_call, info_call, batch_call>>

\* the read that returns b'' ends the loop; then os.unlink(tmp_path)
generate_unlink(r) ==
    /\ pc[r] = "streaming"
    /\ FileRead(FileAt(fs, tmp_path[r]), pos[r], ChunkSize).len = 0
    /\ fs' = {f \in fs : f.path # tmp_path[r]}
    /\ log' = [log EXCEPT ![r] = Append(@, "unlink")]
    /\ pc' = [pc EXCEPT ![r] = "done"]
    /\ UNCHANGED <<response, closure, tmp_path, pos, chunks, raised, written,
                   fmt_call, info_call, batch_call>>

\* the consumer goes away: the generator is closed (or dropped) where it is
\* suspended, before its first line or at `yield chunk`.  GeneratorExit is
\* not an Exception; `with open` closes f, and nothing else runs.
generate_close(r) ==
    /\ \/ pc[r] = "responded"
       \/ pc[r] = "streaming" /\ chunks[r] # <<>>
    /\ pc' = [pc EXCEPT ![r] = "closed"]
    /\ UNCHANGED <<response, closure, tmp_path, pos, chunks, log, raised,
                   written, fs, fmt_call, info_call, batch_call>>

\* ------------------------------------------------- the /download specification

NoTrim == [start_time |-> None, end_time |-> None]

\* the requests of the concurrent scenario
DownloadRequests ==
    {[url |-> "https://valid/1", format |-> "mp4", quality |-> Str("720")] @@ NoTrim}

ExtractOutcomes ==
    {Raises(e) : e \in {"ERROR: Unsupported URL"}}
    \cup {Returns([title |-> Str(<<"a">>)])}

DownloadOutcomes ==
    {Raises(e) : e \in {"ERROR: Postprocessing: Conversion failed!"}}
    \cup {Returns(n) : n \in Sizes}

Next ==
    \E r \in Requests :
        \/ \E request \in DownloadRequests, extracted \in ExtractOutcomes :
               download_video(r, request, extracted)
        \/ generate_create(r)
        \/ \E downloaded \in DownloadOutcomes : generate_download(r, downloaded)
        \/ generate_yield(r)
        \/ generate_unlink(r)
        \/ generate_close(r)

Spec == Init /\ [][Next]_vars

\* ------------------------------------------------------ claims on /download

\* the files on disk that request r's NamedTemporaryFile call created
TransientFiles(r) == {f \in fs : f.creator = r}

\* the generator of r has ended or been given up, or the handler raised
Ended(r) == pc[r] \in {"http500", "done", "failed", "closed"}

\* nothing can happen any more
Quiescent == \A r \in Requests : Ended(r)

\* C1: once an invocation that created its transient file has ended, by the
\* stream being read to exhaustion or by the engine download failing, the file
\* it created is no longer on disk, and in the failure case no chunk was
\* streamed.
C1_NoTransientFileAfterEnd ==
    \A r \in Requests :
        pc[r] \in {"done", "failed"} =>
            /\ TransientFiles(r) = {}
            /\ pc[r] = "failed" => chunks[r] = <<>>

\* C2: a stream given up after at least one chunk and before exhaustion still
\* has its transient file removed by the time the system has come to rest.
C2_RemovedAfterDisconnect ==
    \A r \in Requests :
        (Quiescent /\ pc[r] = "closed" /\ chunks[r] # <<>>) =>
            TransientFiles(r) = {}

\* C3: every request whose metadata fetch or engine download failed was
\* answered with status 500 and the error message as detail, and its failed
\* engine call ran once.
C3_FailureIs500 ==
    \A r \in Requests :
        raised[r] # None =>
            /\ response[r] = HTTPException(500, raised[r].val)
            /\ Len(SelectSeq(log[r], LAMBDA e : e = "download raised")) <= 1
            /\ Len(SelectSeq(log[r], LAMBDA e : e = "extract_info")) <= 1

\* C5: the chunks yielded so far are, in order, the first pos bytes of the
\* artifact the engine wrote; each holds between 1 and 2^20 bytes; at
\* exhaustion they are the whole artifact; and the file is gone only after the
\* last of them was yielded.
C5_StreamIsArtifact ==
    \A r \in Requests :
        LET cs == chunks[r] IN
        /\ \A i \in 1..Len(cs) :
              /\ cs[i].len >= 1
              /\ cs[i].len <= 1048576
              /\ written[r] # None
              /\ cs[i].data = written[r].data
              /\ cs[i].off = (IF i = 1 THEN 0 ELSE cs[i-1].off + cs[i-1].len)
              /\ cs[i].off + cs[i].len <= written[r].size
        /\ pc[r] = "done" =>
              (IF cs = <<>> THEN 0 ELSE cs[Len(cs)].off + cs[Len(cs)].len)
                  = written[r].size
        /\ (written[r] # None /\ ~Exists(fs, written[r].path)) =>
              /\ pc[r] = "done"
              /\ log[r][Len(log[r])] = "unlink"

C5_Witness ==
    \E r \in Requests :
        /\ pc[r] = "done"
        /\ Len(chunks[r]) = 2
        /\ chunks[r][1].len = 1048576
        /\ chunks[r][2].len = 1
        /\ TransientFiles(r) = {}

\* C9: in every request the metadata fetch is the first step, the transient
\* file is created after it, the step after the creation is the engine
\* download, and a chunk is yielded only after the engine download returned:
\* while it has not returned, nothing has been yielded.
C9_Sequenced ==
    \A r \in Requests :
        LET l == log[r] IN
        /\ \A i \in 1..Len(l) :
              /\ l[i] = "extract_info" <=> i = 1
              /\ l[i] = "create" => i = 2
              /\ (l[i] = "create" /\ i < Len(l)) =>
                    l[i+1] \in {"download", "download raised"}
              /\ l[i] \in {"download", "download raised"} => (i > 1 /\ l[i-1] = "create")
              /\ l[i] = "yield" => \E j \in 1..(i-1) : l[j] = "download"
        /\ tmp_path[r] # None => (Len(l) >= 2 /\ l[1] = "extract_info")
        /\ Len(chunks[r]) = Len(SelectSeq(l, LAMBDA e : e = "yield"))
        /\ (\A j \in 1..Len(l) : l[j] # "download") => chunks[r] = <<>>
        /\ chunks[r] # <<>> => written[r] # None

C9_Witness ==
    \E r \in Requests :
        /\ log[r] = <<"extract_info", "create", "download", "yield", "yield", "unlink">>
        /\ \E q \in Requests : log[q] = <<"extract_info", "create", "download raised">>

\* C10: requests in flight hold distinct transient paths; the file at a
\* request's path was created by it, is still there until the request unlinks
\* it, and holds nothing but what the request's own engine call wrote; and the
\* chunks a request streams are bytes of its own artifact.
C10_Isolated ==
    /\ \A f, g \in fs : f.path = g.path => f = g
    /\ \A r, q \in Requests :
          (r # q /\ pc[r] \in {"created", "streaming"}
                 /\ pc[q] \in {"created", "streaming"}) =>
              tmp_path[r] # tmp_path[q]
    /\ \A r \in Requests :
          /\ pc[r] \in {"created", "streaming", "failed", "closed"}
                /\ tmp_path[r] # None =>
                /\ Exists(fs, tmp_path[r])
                /\ FileAt(fs, tmp_path[r]).creator = r
                /\ FileAt(fs, tmp_path[r]).data \in {0, r}
          /\ pc[r] = "streaming" =>
                /\ FileAt(fs, tmp_path[r]).data = r
                /\ FileAt(fs, tmp_path[r]).size = written[r].size
          /\ \A i \in 1..Len(chunks[r]) : chunks[r][i].data = r

\* two requests stream at the same time, and one works under a name that an
\* earlier, finished request had
C10_Witness ==
    /\ \E r, q \in Requests :
          /\ r # q
          /\ pc[r] = "streaming" /\ chunks[r] # <<>>
          /\ pc[q] = "streaming" /\ chunks[q] # <<>>
          /\ tmp_path[r] # tmp_path[q]

\* ------------------------------------------------- the filename specification

\* every title of up to MaxTitleLen characters
Titles == UNION {[1..n -> Chars] : n \in 0..MaxTitleLen}

\* the metadata fetch raises, or returns a record without a title, with a null
\* title, or with a title
TitleOutcomes ==
    {Raises(e) : e \in EngineErrors}
    \cup {Returns(<<>>), Returns([title |-> None])}
    \cup {Returns([title |-> Str(t)]) : t \in Titles}

AllDownloadRequests ==
    [url : {"https://valid/1"},
     format : {"mp4", "mp3", "xyz"},
     quality : {None, Str("1080")},
     start_time : {None, Str("00:01:30")},
     end_time : {None, Str("00:05:00")}]

\* one request, any title
NextFilename ==
    \E request \in AllDownloadRequests, extracted \in TitleOutcomes :
        download_video(1, request, extracted)

SpecFilename == Init /\ [][NextFilename]_vars

\* C7: the response filename is <sanitized title>.<format>, where the
\* sanitized title is the title's alphanumeric, space, hyphen and underscore
\* characters with trailing whitespace trimmed, or "video" when nothing is
\* left; it is never empty.
C7_FilenameSanitized ==
    \A r \in Requests :
        pc[r] = "responded" =>
            LET kept == rstrip(SelectSeq(closure[r].title,
                            LAMBDA c : c \notin {"!", "/", ":"}))
                sanitized == IF kept = <<>> THEN <<"v", "i", "d", "e", "o">> ELSE kept
            IN  /\ response[r].filename = sanitized \o <<".", closure[r].request.format>>
                /\ Len(response[r].filename) > 2

\* ------------------------------------------------------ get_format_opts alone

Formats ==
    {"mp4", "webm", "mkv", "avi", "mp3", "aac", "flac", "wav", "ogg", "xyz", ""}

Qualities == QualityKeys \cup {"", "720p", "144", "4320", "best"}

\* one call of get_format_opts
get_format_opts_call(format, quality) ==
    /\ fmt_call' = [format |-> format, quality |-> quality,
                    opts |-> get_format_opts(format, quality)]
    /\ UNCHANGED <<pc, response, closure, tmp_path, pos, chunks, log, raised,
                   written, fs, info_call, batch_call>>

NextFormat ==
    \E format \in Formats, quality \in Qualities :
        get_format_opts_call(format, quality)

SpecFormat == Init /\ [][NextFormat]_vars

\* C6: get_format_opts returns directives for every pair; for a quality that
\* is none of 360, 480, 720, 1080, 1440, 2160 they are those of quality 720
\* with the same format; for an audio format they are the same whatever the
\* quality.
C6_FormatOptsTotal ==
    fmt_call # None =>
        LET f == fmt_call.format
            q == fmt_call.quality
            opts == fmt_call.opts
        IN  /\ "format" \in DOMAIN opts
            /\ q \notin {"360", "480", "720", "1080", "1440", "2160"} =>
                  /\ opts = get_format_opts(f, "720")
                  /\ f \notin {"mp3", "aac", "flac", "wav", "ogg"} =>
                        opts.format[2] = "720"
            /\ f \in {"mp3", "aac", "flac", "wav", "ogg"} =>
                  \A other \in Qualities : opts = get_format_opts(f, other)

C6_Witness ==
    /\ fmt_call # None
    /\ fmt_call.format = "webm"
    /\ fmt_call.quality = "720p"
    /\ fmt_call.opts.format[2] = "720"

\* ----------------------------------------------------------------- POST /info

\* a key the engine's record does not have
Absent == [type |-> "absent"]

\* the dict with the fields whose value is not Absent
Dict(fields) == [k \in {k \in DOMAIN fields : fields[k] # Absent} |-> fields[k]]

\* a description of n characters, each one different
Description(n) == [i \in 1..n |-> i]

DescriptionLengths ==
    (0..MaxShortDesc) \cup {10, DescLimit - 1, DescLimit, DescLimit + 1, 2 * DescLimit}

\* the records extract_info returns for /info
InfoRecords ==
    {Dict([title |-> t, uploader |-> u, description |-> d]) :
        t \in {Absent, None, Str(<<"a">>)},
        u \in {Absent, Str(<<"a">>)},
        d \in {Absent, None} \cup {Str(Description(n)) : n \in DescriptionLengths}}

InfoOutcomes == {Raises(e) : e \in EngineErrors} \cup {Returns(i) : i \in InfoRecords}

Urls == {"https://valid/1", "not-a-url", "https://valid/2"}

\* the "formats" list of the answer
AdvisoryFormats ==
    <<[quality |-> "360p", ext |-> "mp4"], [quality |-> "480p", ext |-> "mp4"],
      [quality |-> "720p", ext |-> "mp4"], [quality |-> "1080p", ext |-> "mp4"]>>

\* what the handler answers; `extracted` is what
\* ydl.extract_info(request.url, download=False) does
InfoResponse(extracted) ==
    IF ~extracted.ok
    THEN HTTPException(400, extracted.error)
    ELSE LET info == extracted.value
             description == Get(info, "description", Str(<<>>))
         IN  IF description = None
             THEN \* None[:500] raises TypeError inside the try
                  HTTPException(400, "'NoneType' object is not subscriptable")
             ELSE [status |-> 200,
                   success |-> TRUE,
                   data |-> [title |-> Get(info, "title", None),
                             thumbnail |-> Get(info, "thumbnail", None),
                             duration |-> Get(info, "duration", None),
                             channel |-> Get(info, "uploader", None),
                             view_count |-> Get(info, "view_count", None),
                             description |-> Str(Slice(description.val, DescLimit)),
                             formats |-> AdvisoryFormats]]

\* the handler
get_video_info(url, extracted) ==
    /\ info_call' = [url |-> url, extracted |-> extracted,
                     response |-> InfoResponse(extracted)]
    /\ UNCHANGED <<pc, response, closure, tmp_path, pos, chunks, log, raised,
                   written, fs, fmt_call, batch_call>>

NextInfo ==
    \E url \in Urls, extracted \in InfoOutcomes : get_video_info(url, extracted)

SpecInfo == Init /\ [][NextInfo]_vars

\* C8: whenever the engine returns a record, /info answers success; the
\* description is the first 500 characters of the record's description when
\* it has one, and empty or None when the record has none or a null one; only
\* an engine failure is answered with 400.
C8_DescriptionTruncated ==
    info_call # None =>
        LET e == info_call.extracted
            resp == info_call.response
        IN  /\ e.ok =>
                /\ resp.status = 200
                /\ resp.success
                /\ IF "description" \in DOMAIN e.value /\ e.value.description # None
                   THEN LET d == e.value.description.val
                            out == resp.data.description.val
                        IN  /\ Len(out) = (IF Len(d) <= 500 THEN Len(d) ELSE 500)
                            /\ \A i \in 1..Len(out) : out[i] = d[i]
                   ELSE resp.data.description \in {Str(<<>>), None}
            /\ resp.status = 400 => ~e.ok

\* ----------------------------------------------------------- POST /batch-info

\* one iteration that leaves a failing url out
BatchStep_SkipFailed(results, url, extracted) ==
    IF extracted.ok
    THEN Append(results,
                [url |-> url, success |-> TRUE,
                 data |-> [title |-> Get(extracted.value, "title", None),
                           thumbnail |-> Get(extracted.value, "thumbnail", None),
                           duration |-> Get(extracted.value, "duration", None)]])
    ELSE results

\* one iteration of the loop: the try appends the entry of a url the engine
\* resolved, the except that of one it did not
BatchStep(results, url, extracted) ==
    IF extracted.ok
    THEN Append(results,
                [url |-> url, success |-> TRUE,
                 data |-> [title |-> Get(extracted.value, "title", None),
                           thumbnail |-> Get(extracted.value, "thumbnail", None),
                           duration |-> Get(extracted.value, "duration", None)]])
    ELSE Append(results,
                [url |-> url, success |-> FALSE, error |-> extracted.error])

\* for url in urls, from the i-th on; engine[i] is what extract_info does on
\* the i-th call
RECURSIVE BatchLoop(_, _, _, _)
BatchLoop(urls, engine, i, results) ==
    IF i > Len(urls)
    THEN results
    ELSE BatchLoop(urls, engine, i + 1, BatchStep(results, urls[i], engine[i]))

BatchOutcomes ==
    {Raises(e) : e \in {"ERROR: Unsupported URL"}}
    \cup {Returns([title |-> Str(<<"a">>)])}

\* the handler
get_batch_info(urls, engine) ==
    /\ batch_call' = [urls |-> urls, engine |-> engine,
                      response |-> [status |-> 200,
                                    results |-> BatchLoop(urls, engine, 1, <<>>)]]
    /\ UNCHANGED <<pc, response, closure, tmp_path, pos, chunks, log, raised,
                   written, fs, fmt_call, info_call>>

NextBatch ==
    \E n \in 0..MaxUrls :
        \E urls \in [1..n -> Urls], engine \in [1..n -> BatchOutcomes] :
            get_batch_info(urls, engine)

SpecBatch == Init /\ [][NextBatch]_vars

\* C4: /batch-info answers 200 with one entry per input url, in input order;
\* the i-th entry carries the i-th url and success exactly when the engine
\* resolved it.
C4_BatchMirrorsInput ==
    batch_call # None =>
        LET urls == batch_call.urls
            results == batch_call.response.results
        IN  /\ batch_call.response.status = 200
            /\ Len(results) = Len(urls)
            /\ \A i \in 1..Len(urls) :
                  /\ results[i].url = urls[i]
                  /\ results[i].success = batch_call.engine[i].ok

\* the middle url of three fails, and the entries around it are there
C4_Witness ==
    /\ batch_call # None
    /\ batch_call.urls = <<"https://valid/1", "not-a-url", "https://valid/2">>
    /\ ~batch_call.engine[2].ok
    /\ Len(batch_call.response.results) = 3
    /\ batch_call.response.results[1].success
    /\ ~batch_call.response.results[2].success
    /\ batch_call.response.results[3].success

====
